---- MODULE Spec2Model ----
(***************************************************************************)
(* Model of the Grillz Designer add-on (src/grillz_designer_addon.py):     *)
(* the operator GRILLZ_OT_GenerateGrill.execute, the host scene it reads   *)
(* and writes (mesh data-blocks, objects, the active collection, object    *)
(* selection, the active object, the editing mode), the three range-bound  *)
(* float properties, and the user actions that drive the host between two  *)
(* calls of the operator.                                                  *)
(*                                                                         *)
(* Lengths and ratios are counted in hundredths (0.01 is 1, 0.6 is 60).    *)
(* A vertex position is one coordinate on one axis.  An object or a mesh   *)
(* data-block is named by its index in bpy.data.objects / bpy.data.meshes, *)
(* 0 standing for None.                                                    *)
(***************************************************************************)
EXTENDS Integers, Sequences, FiniteSets, TLC

VARIABLES
    meshes,        \* bpy.data.meshes: sequence of mesh data-blocks
    objects,       \* bpy.data.objects: sequence of objects
    collection,    \* context.collection.objects: the linked object ids, in link order
    selected,      \* the set of selected objects
    active,        \* context.view_layer.objects.active (0: none)
    mode,          \* context.mode
    scene_props,   \* Scene.grillz_thickness / _remesh_voxel_size / _decimate_ratio
    requested,     \* the property values the latest call of the operator was given
    result,        \* what the latest call returned ("NONE": the latest event was no call)
    report,        \* the message the latest call reported
    source_obj,    \* the local source_obj of the latest call (0: not reached)
    grill_object,  \* the local grill_object of the latest call (0: not reached)
    entries,       \* how many times edit mode was entered
    entries_sel    \* ... of which with a vertex of the edited mesh already selected

vars == <<meshes, objects, collection, selected, active, mode, scene_props,
          requested, result, report, source_obj, grill_object, entries, entries_sel>>

----------------------------------------------------------------------------
(* Bounds of the model *)

MaxVerts == 4

MaxFaces == 2

MaxGrills == 2

MaxEntries == 2

----------------------------------------------------------------------------
(* Program constants, in hundredths *)

ThicknessDefault == 60

ThicknessMin == 20

ThicknessMax == 500

VoxelDefault == 10

VoxelMin == 1

VoxelMax == 100

RatioDefault == 50

RatioMin == 5

RatioMax == 100

MergeThreshold == 1

SolidifyOffset == 1

SmoothIterations == 5

MsgMode == "Please switch to Edit Mode to select teeth."

MsgObject == "An editable mesh object must be active."

MsgSelection == "You must select the teeth vertices first."

MsgDone == "Non-destructively generated Grill_Base object."

MsgFaceExists == "ValueError: faces.new(verts): face already exists"

----------------------------------------------------------------------------
(* Small helpers *)

Range(s) == {s[i] : i \in DOMAIN s}

IsInjective(f) == \A a, b \in DOMAIN f : f[a] = f[b] => a = b

SetMin(S) == CHOOSE x \in S : \A y \in S : x <= y

SetMax(S) == CHOOSE x \in S : \A y \in S : x >= y

\* the elements of a finite set of integers, ascending
RECURSIVE Ascending(_)
Ascending(S) ==
    IF S = {} THEN <<>>
    ELSE LET m == SetMin(S) IN <<m>> \o Ascending(S \ {m})

----------------------------------------------------------------------------
(* bpy.props.FloatProperty(min=, max=): a value assigned to the property   *)
(* is stored clamped to the hard range.                                    *)

ClampFloatUnbounded(v, lo, hi) == v

ClampFloat(v, lo, hi) == IF v < lo THEN lo ELSE IF v > hi THEN hi ELSE v

\* the operator's three properties after assignment of the requested values
OperatorProps(req) ==
    [thickness |-> ClampFloat(req.thickness, ThicknessMin, ThicknessMax),
     remesh_voxel_size |-> ClampFloat(req.remesh_voxel_size, VoxelMin, VoxelMax),
     decimate_ratio |-> ClampFloat(req.decimate_ratio, RatioMin, RatioMax)]

\* the three scene properties registered by register(), after assignment
SceneProps(req) ==
    [thickness |-> ClampFloat(req.thickness, ThicknessMin, ThicknessMax),
     remesh_voxel_size |-> ClampFloat(req.remesh_voxel_size, VoxelMin, VoxelMax),
     decimate_ratio |-> ClampFloat(req.decimate_ratio, RatioMin, RatioMax)]

DefaultProps ==
    [thickness |-> ThicknessDefault, remesh_voxel_size |-> VoxelDefault,
     decimate_ratio |-> RatioDefault]

\* values a user or a script may ask for: in range, below it, above it
ParamRequests ==
    {DefaultProps,
     [thickness |-> ThicknessMin - 10, remesh_voxel_size |-> VoxelMin - 1,
      decimate_ratio |-> RatioMin - 5],
     [thickness |-> ThicknessMax + 400, remesh_voxel_size |-> VoxelMax + 100,
      decimate_ratio |-> RatioMax + 100]}

NoRequest == [thickness |-> 0, remesh_voxel_size |-> 0, decimate_ratio |-> 0]

----------------------------------------------------------------------------
(* The geometry copy, lines 70-100.                                        *)
(* A mesh is [verts: sequence of positions, faces: sequence of vertex      *)
(* index sequences, vsel: selected vertices, fsel: selected faces].        *)
(* The state of the copy is [verts: new_bm.verts as positions, faces:      *)
(* new_bm.faces as sequences of indices into verts, vert_map, raised].     *)

EmptyMesh == [verts |-> <<>>, faces |-> <<>>, vsel |-> {}, fsel |-> {}]

EmptyCopy == [verts |-> <<>>, faces |-> <<>>, vert_map |-> <<>>, raised |-> FALSE]

\* lines 83-88: the vertices of one face, from position i on; st carries
\* new_bm.verts, vert_map and the list new_verts
RECURSIVE CopyFaceVertsNoLookup(_, _, _, _)
CopyFaceVertsNoLookup(bm, face, i, st) ==
    IF i > Len(face) THEN st
    ELSE LET vert == face[i]
             n == Len(st.verts) + 1
         IN CopyFaceVertsNoLookup(bm, face, i + 1,
                [verts |-> Append(st.verts, bm.verts[vert]),
                 vert_map |-> (vert :> n) @@ st.vert_map,
                 new_verts |-> Append(st.new_verts, n)])

RECURSIVE CopyFaceVerts(_, _, _, _)
CopyFaceVerts(bm, face, i, st) ==
    IF i > Len(face) THEN st
    ELSE LET vert == face[i] IN
         IF vert \notin DOMAIN st.vert_map
         THEN LET n == Len(st.verts) + 1 IN
              CopyFaceVerts(bm, face, i + 1,
                  [verts |-> Append(st.verts, bm.verts[vert]),
                   vert_map |-> (vert :> n) @@ st.vert_map,
                   new_verts |-> Append(st.new_verts, n)])
         ELSE CopyFaceVerts(bm, face, i + 1,
                  [st EXCEPT !.new_verts = Append(@, st.vert_map[vert])])

\* new_bm.faces.new(new_verts) raises ValueError for fewer than three
\* vertices, for a vertex used twice, and when a face on the same vertices
\* already exists in new_bm
FaceNewRaises(faces, new_verts) ==
    \/ Len(new_verts) < 3
    \/ ~IsInjective(new_verts)
    \/ \E j \in DOMAIN faces : Range(faces[j]) = Range(new_verts)

\* lines 81-90 for one face of the source
CopyFaceReversed(bm, f, st) ==
    IF f \notin bm.fsel THEN st
    ELSE LET c == CopyFaceVerts(bm, bm.faces[f], 1,
                     [verts |-> st.verts, vert_map |-> st.vert_map, new_verts |-> <<>>])
             n == Len(c.new_verts)
         IN [verts |-> c.verts, vert_map |-> c.vert_map,
             faces |-> Append(st.faces, [i \in 1..n |-> c.new_verts[n + 1 - i]]),
             raised |-> FaceNewRaises(st.faces, c.new_verts)]

CopyFace(bm, f, st) ==
    IF f \notin bm.fsel THEN st
    ELSE LET c == CopyFaceVerts(bm, bm.faces[f], 1,
                     [verts |-> st.verts, vert_map |-> st.vert_map, new_verts |-> <<>>])
         IN IF FaceNewRaises(st.faces, c.new_verts)
            THEN [verts |-> c.verts, vert_map |-> c.vert_map,
                  faces |-> st.faces, raised |-> TRUE]
            ELSE [verts |-> c.verts, vert_map |-> c.vert_map,
                  faces |-> Append(st.faces, c.new_verts), raised |-> FALSE]

\* lines 77-90: the copy after the loop has taken the first k faces of bm;
\* an exception ends the loop where it is raised
RECURSIVE CopyFaces(_, _)
CopyFaces(bm, k) ==
    IF k = 0 THEN EmptyCopy
    ELSE LET st == CopyFaces(bm, k - 1) IN
         IF st.raised THEN st ELSE CopyFace(bm, k, st)

\* lines 93-96: with no face copied, one new vertex per selected vertex,
\* in the order of bm.verts
FallbackVertsAll(bm) == bm.verts

FallbackVerts(bm) ==
    LET sel == Ascending(bm.vsel) IN [i \in 1..Len(sel) |-> bm.verts[sel[i]]]

\* lines 92-99: the mesh written by new_bm.to_mesh(new_mesh); elements made
\* by verts.new / faces.new carry no selection flag
BuiltMesh(bm) ==
    LET cp == CopyFaces(bm, Len(bm.faces)) IN
    [verts |-> IF cp.faces = <<>> THEN cp.verts \o FallbackVerts(bm) ELSE cp.verts,
     faces |-> cp.faces, vsel |-> {}, fsel |-> {}]

\* line 66
AnySelectedFace(bm) == bm.fsel # {}

AnySelected(bm) == bm.vsel # {}

----------------------------------------------------------------------------
(* The host scene *)

\* an object is [type, data: its mesh data-block (0: none), location: its
\* origin, modifiers: its modifier stack]
NewObject(data) == [type |-> "MESH", data |-> data, location |-> 0, modifiers |-> <<>>]

CurveObject == [type |-> "CURVE", data |-> 0, location |-> 0, modifiers |-> <<>>]

\* context.mode of an object in edit mode, by its type
EditModeOf(type) == IF type = "MESH" THEN "EDIT_MESH" ELSE "EDIT_CURVE"

\* context.edit_object: the active object while the host is in an edit mode
EditObject == IF mode # "OBJECT" THEN active ELSE 0

\* line 104: context.collection.objects.link(grill_object)
LinkObjectTwice(coll, o) == Append(Append(coll, o), o)

LinkObject(coll, o) == Append(coll, o)

\* line 108: bpy.ops.object.mode_set(mode='OBJECT')
ModeSetIgnored(current, target) == current

ModeSet(current, target) == target

\* line 109: bpy.ops.object.select_all(action='DESELECT')
SelectAllKeep(sel) == sel

SelectAllDeselect(sel) == {}

\* line 114: origin_set(type='ORIGIN_GEOMETRY', center='BOUNDS') moves the
\* origin of every selected mesh object to the centre of the bounds of its
\* geometry: the positions stored in its mesh are shifted by -centre and the
\* object's location by +centre
BoundsCenter(verts) == (SetMin(Range(verts)) + SetMax(Range(verts))) \div 2

OriginTargets(ms, objs, sel) ==
    {o \in sel : objs[o].type = "MESH" /\ ms[objs[o].data].verts # <<>>}

OriginSetMeshes(ms, objs, sel) ==
    [m \in DOMAIN ms |->
        IF \E o \in OriginTargets(ms, objs, sel) : objs[o].data = m
        THEN [ms[m] EXCEPT !.verts =
                 [i \in DOMAIN ms[m].verts |-> ms[m].verts[i] - BoundsCenter(ms[m].verts)]]
        ELSE ms[m]]

OriginSetObjects(ms, objs, sel) ==
    [o \in DOMAIN objs |->
        IF o \in OriginTargets(ms, objs, sel)
        THEN [objs[o] EXCEPT !.location = @ + BoundsCenter(ms[objs[o].data].verts)]
        ELSE objs[o]]

\* lines 116-141: the five modifiers, in the order of the calls of modifiers.new
ModifierStackSwapped(props) ==
    << [type |-> "WELD", name |-> "Grill_Weld", merge_threshold |-> MergeThreshold],
       [type |-> "REMESH", name |-> "Grill_Remesh", mode |-> "VOXEL",
        voxel_size |-> props.remesh_voxel_size, use_remove_disconnected |-> TRUE],
       [type |-> "SOLIDIFY", name |-> "Grill_Thickness",
        thickness |-> props.thickness, offset |-> SolidifyOffset],
       [type |-> "LAPLACIANSMOOTH", name |-> "Grill_LaplacianSmooth",
        iterations |-> SmoothIterations, use_volume_preserve |-> TRUE],
       [type |-> "DECIMATE", name |-> "Grill_Decimate", ratio |-> props.decimate_ratio] >>

ModifierStack(props) ==
    << [type |-> "WELD", name |-> "Grill_Weld", merge_threshold |-> MergeThreshold],
       [type |-> "SOLIDIFY", name |-> "Grill_Thickness",
        thickness |-> props.thickness, offset |-> SolidifyOffset],
       [type |-> "REMESH", name |-> "Grill_Remesh", mode |-> "VOXEL",
        voxel_size |-> props.remesh_voxel_size, use_remove_disconnected |-> TRUE],
       [type |-> "LAPLACIANSMOOTH", name |-> "Grill_LaplacianSmooth",
        iterations |-> SmoothIterations, use_volume_preserve |-> TRUE],
       [type |-> "DECIMATE", name |-> "Grill_Decimate", ratio |-> props.decimate_ratio] >>

----------------------------------------------------------------------------
(* GRILLZ_OT_GenerateGrill.execute, lines 46-144.  The model stops making   *)
(* data-blocks once MaxGrills were made.                                   *)

\* a return of {'CANCELLED'} after a warning: nothing but the report changes
Cancelled(msg, src) ==
    /\ result' = "CANCELLED"
    /\ report' = msg
    /\ source_obj' = src
    /\ grill_object' = 0
    /\ UNCHANGED <<meshes, objects, collection, selected, active, mode>>

\* lines 70-90 when faces.new raises: the exception leaves execute after
\* bpy.data.meshes.new (line 71) and before to_mesh (line 99)
Raised(src) ==
    /\ result' = "ERROR"
    /\ report' = MsgFaceExists
    /\ source_obj' = src
    /\ grill_object' = 0
    /\ meshes' = Append(meshes, EmptyMesh)
    /\ UNCHANGED <<objects, collection, selected, active, mode>>

\* lines 70-144
Finished(src, props) ==
    LET bm == meshes[objects[src].data]
        new_mesh == Len(meshes) + 1
        go == Len(objects) + 1
        ms1 == Append(meshes, BuiltMesh(bm))
        objs1 == Append(objects, NewObject(new_mesh))
        sel1 == SelectAllDeselect(selected) \cup {go}
        objs2 == OriginSetObjects(ms1, objs1, sel1)
    IN /\ result' = "FINISHED"
       /\ report' = MsgDone
       /\ source_obj' = src
       /\ grill_object' = go
       /\ collection' = LinkObject(collection, go)
       /\ mode' = ModeSet(mode, "OBJECT")
       /\ selected' = sel1
       /\ active' = go
       /\ meshes' = OriginSetMeshes(ms1, objs1, sel1)
       /\ objects' = [objs2 EXCEPT ![go].modifiers = @ \o ModifierStack(props)]

\* the whole of execute, called with the values req; the host reports
\* EDIT_MESH only while a mesh object is being edited, so from these scenes
\* the second return is never taken
ExecuteWith(req) ==
    /\ UNCHANGED <<scene_props, entries, entries_sel>>
    /\ IF mode # "EDIT_MESH" THEN Cancelled(MsgMode, 0)
       ELSE IF EditObject = 0 \/ objects[EditObject].type # "MESH"
            THEN Cancelled(MsgObject, EditObject)
       ELSE LET bm == meshes[objects[EditObject].data] IN
            IF ~AnySelected(bm) THEN Cancelled(MsgSelection, EditObject)
            ELSE /\ Len(meshes) < 1 + MaxGrills
                 /\ IF CopyFaces(bm, Len(bm.faces)).raised THEN Raised(EditObject)
                    ELSE Finished(EditObject, OperatorProps(req))

\* the panel's button passes the scene's values (lines 180-183)
ExecuteButton ==
    /\ requested' = scene_props
    /\ ExecuteWith(scene_props)

\* a script or the redo panel passes values of its own
ExecuteScript ==
    \E req \in ParamRequests :
       /\ requested' = req
       /\ ExecuteWith(req)

----------------------------------------------------------------------------
(* The user, between two calls *)

NoCall ==
    /\ requested' = NoRequest
    /\ result' = "NONE"
    /\ report' = ""
    /\ source_obj' = 0
    /\ grill_object' = 0

\* the sidebar's three fields (lines 176-178, 198-212)
SetSceneProps ==
    /\ \E req \in ParamRequests : scene_props' = SceneProps(req)
    /\ scene_props' # scene_props
    /\ NoCall
    /\ UNCHANGED <<meshes, objects, collection, selected, active, mode, entries, entries_sel>>

\* a click on an object in object mode: it alone is selected, and active
ClickObject ==
    /\ mode = "OBJECT"
    /\ \E o \in DOMAIN objects : selected' = {o} /\ active' = o
    /\ NoCall
    /\ UNCHANGED <<meshes, objects, collection, mode, scene_props, entries, entries_sel>>

\* Tab in object mode: the active object enters its edit mode
EnterEditMode ==
    /\ mode = "OBJECT"
    /\ active # 0
    /\ entries < MaxEntries
    /\ mode' = EditModeOf(objects[active].type)
    /\ entries' = entries + 1
    /\ entries_sel' = IF objects[active].type = "MESH"
                         /\ AnySelected(meshes[objects[active].data])
                      THEN entries_sel + 1 ELSE entries_sel
    /\ NoCall
    /\ UNCHANGED <<meshes, objects, collection, selected, active, scene_props>>

\* Tab in an edit mode
ExitEditMode ==
    /\ mode # "OBJECT"
    /\ mode' = "OBJECT"
    /\ NoCall
    /\ UNCHANGED <<meshes, objects, collection, selected, active, scene_props,
                   entries, entries_sel>>

SetFlags(vs, fs) ==
    /\ mode = "EDIT_MESH"
    /\ LET m == objects[active].data IN
       /\ meshes' = [meshes EXCEPT ![m].vsel = vs, ![m].fsel = fs]
       /\ meshes' # meshes
    /\ NoCall
    /\ UNCHANGED <<objects, collection, selected, active, mode, scene_props,
                   entries, entries_sel>>

\* A in edit mode: every vertex and every face is selected
SelectAll ==
    /\ mode = "EDIT_MESH"
    /\ LET bm == meshes[objects[active].data] IN
       SetFlags(DOMAIN bm.verts, DOMAIN bm.faces)

\* Alt-A in edit mode
DeselectAll ==
    /\ mode = "EDIT_MESH"
    /\ SetFlags({}, {})

\* a click on one vertex in vertex select mode: it alone is selected
SelectVertex ==
    /\ mode = "EDIT_MESH"
    /\ \E v \in DOMAIN meshes[objects[active].data].verts : SetFlags({v}, {})

----------------------------------------------------------------------------
(* The scans *)

\* the position of vertex v of a scan: vertices of the same parity coincide,
\* 8 apart from the others, so that the centres of bounds stay whole numbers
ScanCo(v) == 8 * (v % 2)

\* faces of a scan: every triangle on the vertices, and one quad
FaceShapes ==
    {s \in [1..3 -> 1..MaxVerts] : s[1] < s[2] /\ s[2] < s[3]}
        \cup {s \in {<<1, 2, 3, 4>>} : MaxVerts >= 4}

\* selection flags of the vertices: none, or the first k
VertexSelections == {1..k : k \in 0..MaxVerts}

\* a scan: MaxVerts vertices, the faces fl, the flags vs and fs
ScanMesh(fl, vs, fs) ==
    [verts |-> [v \in 1..MaxVerts |-> ScanCo(v)], faces |-> fl, vsel |-> vs, fsel |-> fs]

\* the scan of the walk through the panel's instructions: two triangles
\* that share an edge, nothing selected yet
ImportedScan == ScanMesh(<<<<1, 2, 3>>, <<2, 3, 4>>>>, {}, {})

----------------------------------------------------------------------------
(* Specifications *)

\* the scene holds the scan and a curve; the scan is selected and active
Scene(scan) ==
    /\ meshes = <<scan>>
    /\ objects = <<NewObject(1), CurveObject>>
    /\ collection = <<1, 2>>
    /\ selected = {1}
    /\ active = 1
    /\ scene_props = DefaultProps
    /\ requested = NoRequest
    /\ result = "NONE"
    /\ report = ""
    /\ source_obj = 0
    /\ grill_object = 0

\* after register(): the scan is imported and selected, in object mode
Init ==
    /\ Scene(ImportedScan)
    /\ mode = "OBJECT"
    /\ entries = 0
    /\ entries_sel = 0

Next ==
    \/ ExecuteButton
    \/ ExecuteScript
    \/ SetSceneProps
    \/ ClickObject
    \/ EnterEditMode
    \/ ExitEditMode
    \/ SelectAll
    \/ DeselectAll
    \/ SelectVertex

Spec == Init /\ [][Next]_vars

\* any scan of at most MaxFaces faces, in edit mode since the user entered
\* it once, the flags of its faces and of its vertices set independently
InitExtract ==
    /\ \E n \in 0..MaxFaces : \E fl \in [1..n -> FaceShapes] :
       \E vs \in VertexSelections : \E fs \in SUBSET (1..n) :
          /\ Scene(ScanMesh(fl, vs, fs))
          /\ entries_sel = IF vs # {} THEN 1 ELSE 0
    /\ mode = "EDIT_MESH"
    /\ entries = 1

NextExtract == ExecuteButton

SpecExtract == InitExtract /\ [][NextExtract]_vars

----------------------------------------------------------------------------
(* What the claims speak of *)

Done == result = "FINISHED"

\* the mesh the latest call read, and the mesh and the object it made
SrcMesh == meshes[objects[source_obj].data]

Grill == objects[grill_object]

OutMesh == meshes[Grill.data]

\* where vertex i of the made mesh lies: its stored position, from the
\* object's origin
OutPosition(i) == Grill.location + OutMesh.verts[i]

\* the source vertices the selected faces of bm refer to
FaceVerts(bm) == UNION {Range(bm.faces[f]) : f \in bm.fsel}

\* the selected faces among the first k faces of bm, in the order of bm.faces
SelectedFaces(bm, k) == Ascending(bm.fsel \cap (1..k))

GrillsCreated == Len(objects) - 2

InRange(v, lo, hi) == lo <= v /\ v <= hi

----------------------------------------------------------------------------
(* C1: after a successful execute on a mesh with a non-empty set F of      *)
(* selected faces, the output mesh has exactly |F| faces and exactly as    *)
(* many vertices as F refers to distinct source vertices, whatever the     *)
(* selection flags of those vertices.                                      *)
C1_FaceCopyCounts ==
    (Done /\ SrcMesh.fsel # {}) =>
        /\ SrcMesh.vsel # {}
        /\ Len(OutMesh.faces) = Cardinality(SrcMesh.fsel)
        /\ Len(OutMesh.verts) = Cardinality(FaceVerts(SrcMesh))

\* two selected faces share a vertex, and a vertex of a selected face is
\* itself not selected
C1_Witness ==
    /\ Done
    /\ \E f, g \in SrcMesh.fsel :
          f # g /\ Range(SrcMesh.faces[f]) \cap Range(SrcMesh.faces[g]) # {}
    /\ FaceVerts(SrcMesh) \ SrcMesh.vsel # {}
    /\ Len(OutMesh.faces) = 2

(* C2: at every step of the face-copy loop vert_map is an injective         *)
(* function from the source vertices met so far onto the output vertices   *)
(* made so far, each made once at the position of its source; the output   *)
(* faces made so far are the images of the selected source faces, vertex   *)
(* by vertex in the same winding order, so faces that share a source       *)
(* vertex share the output vertex.  The mesh execute writes is the copy    *)
(* after the last step.                                                    *)
LoopInvariant(bm, k) ==
    LET st == CopyFaces(bm, k)
        sf == SelectedFaces(bm, k)
    IN /\ IsInjective(st.vert_map)
       /\ DOMAIN st.vert_map \subseteq FaceVerts(bm)
       /\ Range(st.vert_map) = 1..Len(st.verts)
       /\ \A v \in DOMAIN st.vert_map : st.verts[st.vert_map[v]] = bm.verts[v]
       /\ ~st.raised =>
            /\ DOMAIN st.vert_map = UNION {Range(bm.faces[sf[j]]) : j \in DOMAIN sf}
            /\ Len(st.faces) = Len(sf)
            /\ \A j \in DOMAIN sf :
                  /\ Len(st.faces[j]) = Len(bm.faces[sf[j]])
                  /\ \A i \in DOMAIN st.faces[j] :
                        st.faces[j][i] = st.vert_map[bm.faces[sf[j]][i]]

C2_SharedVertexInvariant ==
    /\ \A m \in DOMAIN meshes : \A k \in 0..Len(meshes[m].faces) :
          LoopInvariant(meshes[m], k)
    /\ (Done /\ SrcMesh.fsel # {}) =>
          LET sf == SelectedFaces(SrcMesh, Len(SrcMesh.faces)) IN
          /\ Len(OutMesh.faces) = Len(sf)
          /\ \A j \in DOMAIN sf :
                /\ Len(OutMesh.faces[j]) = Len(SrcMesh.faces[sf[j]])
                /\ \A i \in DOMAIN OutMesh.faces[j] :
                      OutPosition(OutMesh.faces[j][i]) = SrcMesh.verts[SrcMesh.faces[sf[j]][i]]
          /\ \A j1, j2 \in DOMAIN sf :
                \A i1 \in DOMAIN OutMesh.faces[j1], i2 \in DOMAIN OutMesh.faces[j2] :
                   (OutMesh.faces[j1][i1] = OutMesh.faces[j2][i2])
                      <=> (SrcMesh.faces[sf[j1]][i1] = SrcMesh.faces[sf[j2]][i2])

\* two selected faces share a vertex, at different places of their winding,
\* and the two output faces refer to one output vertex there
C2_Witness ==
    /\ Done
    /\ Len(OutMesh.faces) = 2
    /\ \E i1 \in DOMAIN OutMesh.faces[1], i2 \in DOMAIN OutMesh.faces[2] :
          /\ i1 # i2
          /\ OutMesh.faces[1][i1] = OutMesh.faces[2][i2]
    /\ \E i \in DOMAIN OutMesh.faces[1] :
          OutMesh.verts[OutMesh.faces[1][i]] # OutMesh.verts[OutMesh.faces[1][1]]

(* C3: after a successful execute whose face-copy loop made no face, the   *)
(* output mesh has no face and one vertex per selected source vertex, in   *)
(* the order of the source, each where its source vertex lies.             *)
C3_Fallback ==
    (Done /\ CopyFaces(SrcMesh, Len(SrcMesh.faces)).faces = <<>>) =>
        LET sel == Ascending(SrcMesh.vsel) IN
        /\ SrcMesh.vsel # {}
        /\ OutMesh.faces = <<>>
        /\ Len(OutMesh.verts) = Cardinality(SrcMesh.vsel)
        /\ \A i \in DOMAIN OutMesh.verts : OutPosition(i) = SrcMesh.verts[sel[i]]

\* some but not all vertices selected, at two different positions, of a
\* mesh that has faces, none of them selected
C3_Witness ==
    /\ Done
    /\ SrcMesh.fsel = {}
    /\ SrcMesh.faces # <<>>
    /\ OutMesh.faces = <<>>
    /\ Len(OutMesh.verts) >= 2
    /\ Len(OutMesh.verts) < Len(SrcMesh.verts)
    /\ OutMesh.verts[1] # OutMesh.verts[2]

(* C4: a call in edit mode on an active mesh object none of whose vertices *)
(* is selected, whatever the flags of its faces, is cancelled with the     *)
(* no-selection warning and makes no mesh data-block and no object.        *)
C4_NoSelection ==
    [][(/\ result' # "NONE"
        /\ mode = "EDIT_MESH"
        /\ active # 0
        /\ objects[active].type = "MESH"
        /\ meshes[objects[active].data].vsel = {})
       => (/\ result' = "CANCELLED"
           /\ report' = MsgSelection
           /\ meshes' = meshes
           /\ objects' = objects
           /\ collection' = collection)]_vars

\* cancelled for want of a selected vertex, a face being flagged selected
C4_Witness ==
    /\ result = "CANCELLED"
    /\ report = MsgSelection
    /\ mode = "EDIT_MESH"
    /\ source_obj # 0
    /\ SrcMesh.vsel = {}
    /\ SrcMesh.fsel # {}
    /\ Len(meshes) = 1
    /\ Len(objects) = 2

(* C5: a call of execute, whatever it returns, leaves the vertices, their  *)
(* positions and the faces (each with its ordered vertices) of every mesh  *)
(* that existed before the call, the source mesh among them, as they were. *)
C5_SourceUntouched ==
    [][result' # "NONE" =>
         \A m \in DOMAIN meshes :
            /\ m \in DOMAIN meshes'
            /\ meshes'[m].verts = meshes[m].verts
            /\ meshes'[m].faces = meshes[m].faces]_vars

\* a grill was made and its origin moved to its bounds, the source selected
\* before the call and its positions those of the scan
C5_Witness ==
    /\ Done
    /\ Grill.location # 0
    /\ source_obj = 1
    /\ \A v \in DOMAIN SrcMesh.verts : SrcMesh.verts[v] = ScanCo(v)
    /\ BoundsCenter(SrcMesh.verts) # 0

(* C6: after a successful execute the stack of the new object is Weld      *)
(* (merge distance 0.01), Solidify (the thickness property, offset 1),     *)
(* Remesh (voxel mode, the voxel-size property, remove disconnected),      *)
(* LaplacianSmooth (5 iterations, volume preserving), Decimate (the ratio  *)
(* property), in this order and nothing else.                              *)
C6_ModifierStack ==
    Done =>
        LET mods == Grill.modifiers
            props == OperatorProps(requested)
        IN /\ Len(mods) = 5
           /\ mods[1] = [type |-> "WELD", name |-> "Grill_Weld", merge_threshold |-> 1]
           /\ mods[2] = [type |-> "SOLIDIFY", name |-> "Grill_Thickness",
                         thickness |-> props.thickness, offset |-> 1]
           /\ mods[3] = [type |-> "REMESH", name |-> "Grill_Remesh", mode |-> "VOXEL",
                         voxel_size |-> props.remesh_voxel_size,
                         use_remove_disconnected |-> TRUE]
           /\ mods[4] = [type |-> "LAPLACIANSMOOTH", name |-> "Grill_LaplacianSmooth",
                         iterations |-> 5, use_volume_preserve |-> TRUE]
           /\ mods[5] = [type |-> "DECIMATE", name |-> "Grill_Decimate",
                         ratio |-> props.decimate_ratio]

\* a second grill, made with values other than the defaults
C6_Witness ==
    /\ Done
    /\ grill_object = 4
    /\ Len(Grill.modifiers) = 5
    /\ Grill.modifiers[2].thickness # ThicknessDefault
    /\ Len(objects[3].modifiers) = 5

(* C7: whatever values are asked for, the thickness of every Solidify, the *)
(* voxel size of every Remesh and the ratio of every Decimate modifier lie *)
(* in [0.2, 5.0], [0.01, 1.0] and [0.05, 1.0], and so do the three scene   *)
(* properties.                                                             *)
C7_Clamped ==
    /\ InRange(scene_props.thickness, 20, 500)
    /\ InRange(scene_props.remesh_voxel_size, 1, 100)
    /\ InRange(scene_props.decimate_ratio, 5, 100)
    /\ \A o \in DOMAIN objects : \A i \in DOMAIN objects[o].modifiers :
          LET mod == objects[o].modifiers[i] IN
          /\ mod.type = "SOLIDIFY" => InRange(mod.thickness, 20, 500)
          /\ mod.type = "REMESH" => InRange(mod.voxel_size, 1, 100)
          /\ mod.type = "DECIMATE" => InRange(mod.ratio, 5, 100)

\* a grill made by a call that asked for values above the three ranges
C7_Witness ==
    /\ Done
    /\ requested.thickness > 500
    /\ requested.remesh_voxel_size > 100
    /\ requested.decimate_ratio > 100
    /\ \E i \in DOMAIN Grill.modifiers : Grill.modifiers[i].type = "SOLIDIFY"

(* C8: a call of execute that does not finish leaves no mesh data-block    *)
(* and no object behind, and the collection, the selection, the active     *)
(* object and the mode as they were.                                       *)
C8_AllOrNothing ==
    [][(result' # "NONE" /\ result' # "FINISHED") =>
         /\ meshes' = meshes
         /\ objects' = objects
         /\ collection' = collection
         /\ selected' = selected
         /\ active' = active
         /\ mode' = mode]_vars

(* C9: a successful execute adds one mesh and one object on it, links the  *)
(* object into the collection once, leaves it the only selected object and *)
(* the active one, the source neither, and adds, removes, changes or       *)
(* relinks no other object.                                                *)
C9_OneNewObject ==
    [][result' = "FINISHED" =>
         LET go == Len(objects) + 1 IN
         /\ grill_object' = go
         /\ Len(meshes') = Len(meshes) + 1
         /\ Len(objects') = Len(objects) + 1
         /\ objects'[go].type = "MESH"
         /\ objects'[go].data = Len(meshes) + 1
         /\ \A o \in DOMAIN objects : objects'[o] = objects[o]
         /\ collection' = Append(collection, go)
         /\ go \notin Range(collection)
         /\ selected' = {go}
         /\ active' = go
         /\ source_obj' = active
         /\ source_obj' # go]_vars

\* a grill was made from the scan, which was selected and active, while
\* another grill existed
C9_Witness ==
    /\ Done
    /\ source_obj = 1
    /\ grill_object = 4
    /\ selected = {4}
    /\ active = 4
    /\ collection = <<1, 2, 3, 4>>

(* C10, as stated: a successful execute leaves the host in object mode, a  *)
(* call in another mode than edit-mesh is cancelled by the mode check and  *)
(* makes nothing, and the number of grills made never exceeds the number   *)
(* of times edit mode was entered with a vertex already selected.          *)
ModeCheckFirst ==
    /\ Done => mode = "OBJECT"
    /\ (result # "NONE" /\ ~Done /\ mode # "EDIT_MESH") =>
          /\ result = "CANCELLED"
          /\ report = MsgMode
          /\ source_obj = 0
          /\ grill_object = 0

C10_Original ==
    /\ ModeCheckFirst
    /\ GrillsCreated <= entries_sel

(* C10, amended: ... and the number of grills made never exceeds the       *)
(* number of times edit mode was entered, the selection made before or     *)
(* after entering.                                                         *)
C10_OnePerEditSession ==
    /\ ModeCheckFirst
    /\ GrillsCreated <= entries

\* two grills after two edit sessions, then a call in object mode, cancelled
C10_Witness ==
    /\ GrillsCreated = 2
    /\ entries = 2
    /\ result = "CANCELLED"
    /\ report = MsgMode
    /\ mode = "OBJECT"

====
